---- MODULE Spec2Model ----
(***************************************************************************)
(* Kali Kalari station booking server (server.js, the variant with the     *)
(* interval-overlap conflict check, lines 242-542; the earlier variant of  *)
(* lines 1-240 follows in its own section) and its React client            *)
(* BookingPreview (unnamed/part_002).                                      *)
(*                                                                         *)
(* Each Express handler is an async function: it runs synchronously up to  *)
(* an await, and other handlers may run between an awaited query being     *)
(* issued and its continuation.  One action models one such segment: the   *)
(* awaited database or sheet call together with the synchronous            *)
(* continuation that follows it.                                           *)
(*                                                                         *)
(* Values: a time of day "HH:MM" is the pair <<hh, mm>>, a missing field   *)
(* is <<>>, "" or 0 (all falsy in JavaScript); hours are kept in           *)
(* hundredths and money in cents, so Math.round(x * 100) / 100 is exact.   *)
(***************************************************************************)
EXTENDS Integers, Sequences, FiniteSets, TLC

VARIABLES
    bookings,     \* rows of table bookings (a set of records, keyed by id)
    nextId,       \* next value of the SERIAL sequence bookings_id_seq
    sheet,        \* the module-level `sheet`: "null" or "sheet"
    sheetRows,    \* rows of the Google Sheet, in sheet order
    pendingAdds,  \* sheet.addRow calls issued by pushBookingToSheet, not yet settled
    reqs,         \* one record per HTTP request being handled
    last,         \* the request answered most recently, with its response
    nreq,         \* number of requests received so far
    now,          \* the wall clock: [date, time]
    client        \* React state of one mounted BookingPreview

vars == <<bookings, nextId, sheet, sheetRows, pendingAdds, reqs, last, nreq,
          now, client>>

----------------------------------------------------------------------------
(* Bounds of the model *)

MaxRequests == 3

\* Handlers that can be between two awaits at the same time
Slots == {1, 2}

----------------------------------------------------------------------------
(* Request inputs *)

NoTime == <<>>
Times == {<<9, 40>>, <<10, 0>>, <<10, 20>>}
Dates == {1, 2}
StationInputs == {0, 1, 2, 7}
Millis == {1, 2}
RandomBytes == {0}
Timestamps == {1}

----------------------------------------------------------------------------
(* Table stations after initDatabase: DROP TABLE, CREATE TABLE, seed *)

stations ==
    [id \in 1 .. 6 |->
        CASE id = 1 -> [station_name |-> "Bekal Station", rate_per_hour |-> 20000]
          [] id = 2 -> [station_name |-> "Mattancherry Station", rate_per_hour |-> 18000]
          [] id = 3 -> [station_name |-> "Padmanabha Station", rate_per_hour |-> 15000]
          [] id = 4 -> [station_name |-> "Athirapally Station", rate_per_hour |-> 13000]
          [] id = 5 -> [station_name |-> "Munnar Station", rate_per_hour |-> 10000]
          [] OTHER -> [station_name |-> "Coorg Station", rate_per_hour |-> 8000]]

----------------------------------------------------------------------------
(* Helpers *)

\* Math.round(n / d) for d > 0: halves round towards +infinity
MathRound(n, d) == (2 * n + d) \div (2 * d)

\* timeToMinutes: "HH:MM" -> hh * 60 + mm (null for a falsy argument)
timeToMinutes(t) == IF t = NoTime THEN -1 ELSE t[1] * 60 + t[2]

\* Mutant: Math.floor in place of Math.round
computeDurationHoursFloor(start_time, end_time) ==
    IF start_time = NoTime \/ end_time = NoTime
    THEN 0
    ELSE ((timeToMinutes(end_time) - timeToMinutes(start_time)) * 100) \div 60

\* computeDurationHours, in hundredths of an hour
computeDurationHours(start_time, end_time) ==
    IF start_time = NoTime \/ end_time = NoTime
    THEN 0
    ELSE MathRound((timeToMinutes(end_time) - timeToMinutes(start_time)) * 100, 60)

\* total_price in cents from hundredths of an hour and a rate in cents
computeTotalPrice(duration_hours, rate_per_hour) ==
    MathRound(duration_hours * rate_per_hour, 100)

\* PostgreSQL's order on TIME values
TimeLE(a, b) == a[1] < b[1] \/ (a[1] = b[1] /\ a[2] <= b[2])

\* Mutant: the availability test of the older handlers, start_time = $3
ConflictRowsSameStart(station_id, booking_date, start_time, end_time) ==
    {b \in bookings :
        /\ b.station_id = station_id
        /\ b.booking_date = booking_date
        /\ b.status \in {"confirmed", "Active"}
        /\ b.start_time = start_time}

\* Mutant: closed intervals, NOT (end_time < $3 OR start_time > $4)
ConflictRowsClosed(station_id, booking_date, start_time, end_time) ==
    {b \in bookings :
        /\ b.station_id = station_id
        /\ b.booking_date = booking_date
        /\ b.status \in {"confirmed", "Active"}
        /\ TimeLE(start_time, b.end_time) /\ TimeLE(b.start_time, end_time)}

\* Mutant: the conflict SELECT without its status condition
ConflictRowsAnyStatus(station_id, booking_date, start_time, end_time) ==
    {b \in bookings :
        /\ b.station_id = station_id
        /\ b.booking_date = booking_date
        /\ ~(TimeLE(b.end_time, start_time) \/ TimeLE(end_time, b.start_time))}

\* The conflict SELECT of POST /api/bookings
ConflictRows(station_id, booking_date, start_time, end_time) ==
    {b \in bookings :
        /\ b.station_id = station_id
        /\ b.booking_date = booking_date
        /\ b.status \in {"confirmed", "Active"}
        /\ ~(TimeLE(b.end_time, start_time) \/ TimeLE(end_time, b.start_time))}

\* SELECT station_name, rate_per_hour FROM stations WHERE id = $1
StationRows(station_id) == {id \in DOMAIN stations : id = station_id}

----------------------------------------------------------------------------
(* Request records *)

NoBody ==
    [name |-> "", contact |-> "", station_id |-> 0, booking_date |-> 0,
     start_time |-> NoTime, end_time |-> NoTime]

NoCode == <<>>

NoRow ==
    [id |-> 0, station_id |-> 0, booking_date |-> 0, start_time |-> NoTime,
     end_time |-> NoTime, duration_hours |-> 0, total_price |-> 0,
     status |-> "", booking_code |-> NoCode, created_at |-> 0]

Idle ==
    [kind |-> "idle", pc |-> "idle", body |-> NoBody, id |-> 0, dur |-> 0,
     total_price |-> 0, booking_code |-> NoCode, updated |-> NoRow,
     match |-> 0]

\* res.status(status).json({ error })
Reject(req, status, error) ==
    [kind |-> req.kind, status |-> status, error |-> error, message |-> "",
     booking |-> NoRow, rows |-> <<>>]

\* res.json({ message, booking })
Answer(req, message, booking) ==
    [kind |-> req.kind, status |-> 200, error |-> "", message |-> message,
     booking |-> booking, rows |-> <<>>]

\* res.json(rows)
Rows(kind, rows) ==
    [kind |-> kind, status |-> 200, error |-> "", message |-> "",
     booking |-> NoRow, rows |-> rows]

NoLast == Reject(Idle, 0, "")

\* Request bodies: every field present (the times in any order; station 1 on
\* either date, station 2 and the unknown station 7 on date 1), or exactly one
\* required field missing
FullBodies ==
    {b \in [name : {"Anu"}, contact : {""}, station_id : StationInputs \ {0},
            booking_date : Dates, start_time : Times, end_time : Times] :
        b.station_id = 1 \/ b.booking_date = 1}

PartialBodies ==
    LET full == [name |-> "Anu", contact |-> "", station_id |-> 1,
                 booking_date |-> 1, start_time |-> <<10, 0>>, end_time |-> <<10, 20>>]
    IN  {[full EXCEPT !.name = ""], [full EXCEPT !.station_id = 0],
         [full EXCEPT !.booking_date = 0], [full EXCEPT !.start_time = NoTime],
         [full EXCEPT !.end_time = NoTime]}

Bodies == FullBodies \cup PartialBodies

BookingIds == 1 .. MaxRequests

\* Express starts a handler in slot r, the first free one
CanReceive(r) ==
    /\ reqs[r].pc = "idle"
    /\ \A q \in Slots : q < r => reqs[q].pc # "idle"
    /\ nreq < MaxRequests

\* The handler in slot r sends its response and returns
Respond(r, response) ==
    /\ reqs' = [reqs EXCEPT ![r] = Idle]
    /\ last' = response

\* The handler in slot r awaits its next call, with locals req
Await(r, req) ==
    /\ reqs' = [reqs EXCEPT ![r] = req]
    /\ last' = last

----------------------------------------------------------------------------
(* POST /api/bookings *)

\* !name || !station_id || !booking_date || !start_time || !end_time
MissingRequired(body) ==
    \/ body.name = ""
    \/ body.station_id = 0
    \/ body.booking_date = 0
    \/ body.start_time = NoTime
    \/ body.end_time = NoTime

\* Mutant: if (dur < 0) return 400
InvalidTimeOrderStrict(dur) == dur < 0

\* if (dur <= 0) return 400
InvalidTimeOrder(dur) == dur <= 0

\* Synchronous part: validation, then the conflict SELECT is issued
CreateReceive(r, body) ==
    /\ CanReceive(r)
    /\ nreq' = nreq + 1
    /\ LET dur == computeDurationHours(body.start_time, body.end_time)
           req == [Idle EXCEPT !.kind = "create"]
       IN  IF MissingRequired(body)
           THEN Respond(r, Reject(req, 400, "Missing required fields"))
           ELSE IF InvalidTimeOrder(dur)
           THEN Respond(r, Reject(req, 400, "end_time must be after start_time"))
           ELSE Await(r, [req EXCEPT !.pc = "conflicts", !.body = body, !.dur = dur])
    /\ UNCHANGED <<bookings, nextId, sheet, sheetRows, pendingAdds, now, client>>

\* 'KB' + Date.now().toString() + crypto.randomBytes(3).toString('hex')
BookingCode(ms, rnd) == <<ms, rnd>>

\* The row pushBookingToSheet is given by POST /api/bookings
SheetRow(req) ==
    [BookingCode |-> req.booking_code, Name |-> req.body.name,
     Station |-> stations[req.body.station_id].station_name,
     BookingDate |-> req.body.booking_date, StartTime |-> req.body.start_time,
     EndTime |-> req.body.end_time, DurationHours |-> req.dur,
     TotalPrice |-> req.total_price, Status |-> "confirmed"]

\* pushBookingToSheet up to its await: nothing when sheet is null
pushBookingToSheet(row) ==
    IF sheet = "null" THEN pendingAdds ELSE pendingAdds \cup {row}

\* The row INSERT ... RETURNING * stores
InsertedRow(req, id, created_at) ==
    [id |-> id, station_id |-> req.body.station_id,
     booking_date |-> req.body.booking_date, start_time |-> req.body.start_time,
     end_time |-> req.body.end_time, duration_hours |-> req.dur,
     total_price |-> req.total_price, status |-> "confirmed",
     booking_code |-> req.booking_code, created_at |-> created_at]

\* Mutant: column booking_code without its UNIQUE constraint
NoUniqueConstraint(code) == FALSE

\* booking_code VARCHAR(50) UNIQUE
UniqueViolation(code) == \E b \in bookings : b.booking_code = code

\* Mutant: the row is written before the conflict test is looked at
CreateConflictsAfterInsert(r) ==
    /\ reqs[r].kind = "create" /\ reqs[r].pc = "conflicts"
    /\ LET req == reqs[r]
           conflicts == ConflictRows(req.body.station_id, req.body.booking_date,
                                     req.body.start_time, req.body.end_time)
       IN  IF conflicts # {}
           THEN /\ bookings' = bookings \cup {InsertedRow(req, nextId, 1)}
                /\ Respond(r, Reject(req, 400, "Station already booked for this time range"))
           ELSE /\ bookings' = bookings
                /\ Await(r, [req EXCEPT !.pc = "station"])
    /\ UNCHANGED <<nextId, sheet, sheetRows, pendingAdds, nreq, now, client>>

\* The conflict SELECT runs; then 400, or the station SELECT is issued
CreateConflicts(r) ==
    /\ reqs[r].kind = "create" /\ reqs[r].pc = "conflicts"
    /\ LET req == reqs[r]
           conflicts == ConflictRows(req.body.station_id, req.body.booking_date,
                                     req.body.start_time, req.body.end_time)
       IN  IF conflicts # {}
           THEN Respond(r, Reject(req, 400, "Station already booked for this time range"))
           ELSE Await(r, [req EXCEPT !.pc = "station"])
    /\ UNCHANGED <<bookings, nextId, sheet, sheetRows, pendingAdds, nreq, now, client>>

\* The station SELECT runs; then 400, or price and booking_code are computed
\* and the INSERT is issued
CreateStation(r) ==
    /\ reqs[r].kind = "create" /\ reqs[r].pc = "station"
    /\ LET req == reqs[r]
           rows == StationRows(req.body.station_id)
       IN  IF rows = {}
           THEN Respond(r, Reject(req, 400, "Invalid station"))
           ELSE \E ms \in Millis, rnd \in RandomBytes :
                  LET station == stations[req.body.station_id]
                  IN  Await(r, [req EXCEPT
                          !.pc = "insert",
                          !.total_price = computeTotalPrice(req.dur, station.rate_per_hour),
                          !.booking_code = BookingCode(ms, rnd)])
    /\ UNCHANGED <<bookings, nextId, sheet, sheetRows, pendingAdds, nreq, now, client>>

\* The INSERT runs (the sequence advances even when the INSERT fails); then the
\* sheet push is started and the response is sent without awaiting it
CreateInsert(r) ==
    /\ reqs[r].kind = "create" /\ reqs[r].pc = "insert"
    /\ nextId' = nextId + 1
    /\ LET req == reqs[r]
       IN  IF UniqueViolation(req.booking_code)
           THEN /\ Respond(r, Reject(req, 500, "Failed to create booking"))
                /\ UNCHANGED <<bookings, pendingAdds>>
           ELSE \E created_at \in Timestamps :
                  LET row == InsertedRow(req, nextId, created_at)
                  IN  /\ bookings' = bookings \cup {row}
                      /\ pendingAdds' = pushBookingToSheet(SheetRow(req))
                      /\ Respond(r, Answer(req, "Booking created successfully", row))
    /\ UNCHANGED <<sheet, sheetRows, nreq, now, client>>

\* Mutant: a failed append rolls the stored booking back
SheetAddRowRollsBack(row, ok) ==
    /\ row \in pendingAdds
    /\ pendingAdds' = pendingAdds \ {row}
    /\ sheetRows' = IF ok THEN Append(sheetRows, row) ELSE sheetRows
    /\ bookings' = IF ok THEN bookings
                   ELSE {b \in bookings : b.booking_code # row.BookingCode}
    /\ UNCHANGED <<nextId, sheet, reqs, last, nreq, now, client>>

\* A sheet.addRow issued by pushBookingToSheet settles: the row is appended, or
\* the call throws and the error is logged
SheetAddRow(row, ok) ==
    /\ row \in pendingAdds
    /\ pendingAdds' = pendingAdds \ {row}
    /\ sheetRows' = IF ok THEN Append(sheetRows, row) ELSE sheetRows
    /\ UNCHANGED <<bookings, nextId, sheet, reqs, last, nreq, now, client>>

----------------------------------------------------------------------------
(* POST /api/bookings/:id/complete *)

\* JavaScript values as <<typeof, value>>; a === b holds for equal primitives of
\* one type only (a Date object is never === a string)
JsString(x) == <<"string", x>>
JsNumber(x) == <<"number", x>>
JsDate(x) == <<"object", x>>
JsUndefined == <<"undefined">>
StrictEq(a, b) == a[1] = b[1] /\ a[1] \in {"string", "number"} /\ a = b

\* rows.find(r => r.BookingCode && r.BookingCode === updated.booking_code)
CodeMatch(r, updated) ==
    r.BookingCode # NoCode /\ r.BookingCode = updated.booking_code

\* The fallback predicate.  Sheet cells are strings; RETURNING * of table
\* bookings has an integer station_id, a Date booking_date and no station_name
\* or name column
HeuristicMatch(r, updated) ==
    \/ StrictEq(JsString(r.Station), JsNumber(updated.station_id))
    \/ StrictEq(JsString(r.Station), JsUndefined)
    \/ /\ StrictEq(JsString(r.BookingDate), JsDate(updated.booking_date))
       /\ StrictEq(JsString(r.StartTime), JsString(updated.start_time))
       /\ StrictEq(JsString(r.Name), JsUndefined)

\* Array.prototype.find as an index: the first i with P, 0 when there is none
FindCode(rows, updated) ==
    LET hits == {i \in 1 .. Len(rows) : CodeMatch(rows[i], updated)}
    IN  IF hits = {} THEN 0 ELSE CHOOSE i \in hits : \A j \in hits : i <= j

FindHeuristic(rows, updated) ==
    LET hits == {i \in 1 .. Len(rows) : HeuristicMatch(rows[i], updated)}
    IN  IF hits = {} THEN 0 ELSE CHOOSE i \in hits : \A j \in hits : i <= j

\* let match = rows.find(code); if (!match) match = rows.find(heuristic)
FindMatch(rows, updated) ==
    IF FindCode(rows, updated) # 0
    THEN FindCode(rows, updated)
    ELSE FindHeuristic(rows, updated)

\* Synchronous part: the UPDATE is issued
CompleteReceive(r, id) ==
    /\ CanReceive(r)
    /\ nreq' = nreq + 1
    /\ Await(r, [Idle EXCEPT !.kind = "complete", !.pc = "update", !.id = id])
    /\ UNCHANGED <<bookings, nextId, sheet, sheetRows, pendingAdds, now, client>>

\* Mutant: the status word of the older handlers, 'Completed'
UpdateStatusCapitalised(status, id) ==
    {IF b.id = id THEN [b EXCEPT !.status = "Completed"] ELSE b : b \in bookings}

\* Mutant: UPDATE without its WHERE clause
UpdateStatusAllRows(status, id) ==
    {[b EXCEPT !.status = status] : b \in bookings}

\* UPDATE bookings SET status = $1 WHERE id = $2 RETURNING *
UpdateStatus(status, id) ==
    {IF b.id = id THEN [b EXCEPT !.status = status] ELSE b : b \in bookings}

\* The UPDATE runs; then 404, or sheet.getRows is issued, or (no sheet) 200
CompleteUpdate(r) ==
    /\ reqs[r].kind = "complete" /\ reqs[r].pc = "update"
    /\ LET req == reqs[r]
           after == UpdateStatus("completed", req.id)
           returning == {b \in after : b.id = req.id}
       IN  /\ bookings' = after
           /\ IF returning = {}
              THEN Respond(r, Reject(req, 404, "Booking not found"))
              ELSE LET updated == CHOOSE b \in returning : TRUE
                   IN  IF sheet # "null"
                       THEN Await(r, [req EXCEPT !.pc = "getRows", !.updated = updated])
                       ELSE Respond(r, Answer(req, "Booking marked completed", updated))
    /\ UNCHANGED <<nextId, sheet, sheetRows, pendingAdds, nreq, now, client>>

\* Mutant: the sheet update without its own try/catch, as in the older
\* handlers: a throwing getRows reaches the outer catch
CompleteGetRowsUncaught(r, ok) ==
    /\ reqs[r].kind = "complete" /\ reqs[r].pc = "getRows"
    /\ LET req == reqs[r]
           match == FindMatch(sheetRows, req.updated)
       IN  IF ~ok
           THEN Respond(r, Reject(req, 500, "Failed to complete booking"))
           ELSE IF match # 0
           THEN Await(r, [req EXCEPT !.pc = "save", !.match = match])
           ELSE Respond(r, Answer(req, "Booking marked completed", req.updated))
    /\ UNCHANGED <<bookings, nextId, sheet, sheetRows, pendingAdds, nreq, now, client>>

\* sheet.getRows settles: it throws (caught, logged), or the match is looked up
\* and, when there is one, match.save is issued
CompleteGetRows(r, ok) ==
    /\ reqs[r].kind = "complete" /\ reqs[r].pc = "getRows"
    /\ LET req == reqs[r]
           match == FindMatch(sheetRows, req.updated)
       IN  IF ok /\ match # 0
           THEN Await(r, [req EXCEPT !.pc = "save", !.match = match])
           ELSE Respond(r, Answer(req, "Booking marked completed", req.updated))
    /\ UNCHANGED <<bookings, nextId, sheet, sheetRows, pendingAdds, nreq, now, client>>

\* match.save settles: the row is written with Status 'completed', or it throws
\* (caught, logged).  Rows are never deleted and no other cell is ever changed,
\* so the row object held since getRows differs from the sheet's in Status only
CompleteSave(r, ok) ==
    /\ reqs[r].kind = "complete" /\ reqs[r].pc = "save"
    /\ LET req == reqs[r]
       IN  /\ sheetRows' = IF ok
                           THEN [sheetRows EXCEPT ![req.match].Status = "completed"]
                           ELSE sheetRows
           /\ Respond(r, Answer(req, "Booking marked completed", req.updated))
    /\ UNCHANGED <<bookings, nextId, sheet, pendingAdds, nreq, now, client>>

----------------------------------------------------------------------------
(* The server after start-up: initDatabase has run, initGoogleSheet has set  *)
(* sheet or left it null, app.listen has been called                         *)

\* The clock when the server starts
StartOfDay == [date |-> 1, time |-> <<9, 30>>]

\* useState([]) for bookings and stations, useState(new Date()) for lastUpdate;
\* computed holds what the last render shows for each station and renderedAt
\* the new Date() that render read
NoClient ==
    [stations |-> <<>>, bookings |-> <<>>, lastUpdate |-> StartOfDay,
     computed |-> <<>>, renderedAt |-> StartOfDay]

Init ==
    /\ bookings = {}
    /\ nextId = 1
    /\ sheet \in {"null", "sheet"}
    /\ sheetRows = <<>>
    /\ pendingAdds = {}
    /\ reqs = [r \in Slots |-> Idle]
    /\ last = NoLast
    /\ nreq = 0
    /\ now = StartOfDay
    /\ client = NoClient

\* GOOGLE_SHEET_ID or GOOGLE_CREDS_JSON unset: initGoogleSheet returns early
InitNoSheet == Init /\ sheet = "null"

\* GOOGLE_SHEET_ID and GOOGLE_CREDS_JSON set, loadInfo succeeded
InitSheet == Init /\ sheet = "sheet"

\* Handlers interleave at their awaits
Next ==
    \/ \E r \in Slots, body \in Bodies : CreateReceive(r, body)
    \/ \E r \in Slots : CreateConflicts(r)
    \/ \E r \in Slots : CreateStation(r)
    \/ \E r \in Slots : CreateInsert(r)
    \/ \E r \in Slots, id \in BookingIds : CompleteReceive(r, id)
    \/ \E r \in Slots : CompleteUpdate(r)

\* Concurrent requests against the store, no sheet configured
Spec == InitNoSheet /\ [][Next]_vars

\* Requests handled one at a time: every request is received on slot 1, after
\* the previous one has been answered; the sheet is configured or not
NextSeq ==
    \/ \E body \in Bodies : CreateReceive(1, body)
    \/ CreateConflicts(1)
    \/ CreateStation(1)
    \/ CreateInsert(1)
    \/ \E row \in pendingAdds, ok \in BOOLEAN : SheetAddRow(row, ok)
    \/ \E id \in BookingIds : CompleteReceive(1, id)
    \/ CompleteUpdate(1)
    \/ \E ok \in BOOLEAN : CompleteGetRows(1, ok)
    \/ \E ok \in BOOLEAN : CompleteSave(1, ok)

SpecSeq == Init /\ [][NextSeq]_vars

----------------------------------------------------------------------------
(* The earlier server.js (lines 1-240): status words 'Active' / 'Completed', *)
(* availability test on start_time alone, duration and price taken from the *)
(* request body.  Same state variables; rows of bookings carry user_name.   *)

\* Table stations after this initDatabase: five seeded stations, no rate
activeStations ==
    [id \in 1 .. 5 |->
        CASE id = 1 -> "Bekal Station"
          [] id = 2 -> "Mattancherry Station"
          [] id = 3 -> "Padmanabha Station"
          [] id = 4 -> "Athirapally Station"
          [] OTHER -> "Munnar Station"]

\* Request bodies: every required field present (two overlapping intervals and
\* an inverted one; duration_hours and total_price as a client computed them,
\* or absent), or user_name missing
ActiveIntervals == {<<<<9, 40>>, <<10, 20>>>>, <<<<10, 0>>, <<10, 20>>>>, <<<<10, 0>>, <<9, 40>>>>}

ActiveFullBodies ==
    {[user_name |-> "Anu", contact |-> "", station_id |-> s, booking_date |-> 1,
      start_time |-> i[1], end_time |-> i[2], duration_hours |-> p[1],
      total_price |-> p[2]] :
        s \in {1, 7}, i \in ActiveIntervals, p \in {<<0, 0>>, <<33, 2000>>}}

ActiveBodies ==
    ActiveFullBodies \cup
    {[user_name |-> "", contact |-> "", station_id |-> 1, booking_date |-> 1,
      start_time |-> <<10, 0>>, end_time |-> <<10, 20>>, duration_hours |-> 33,
      total_price |-> 2000]}

\* !user_name || !station_id || !booking_date || !start_time || !end_time
ActiveMissingRequired(body) ==
    \/ body.user_name = ""
    \/ body.station_id = 0
    \/ body.booking_date = 0
    \/ body.start_time = NoTime
    \/ body.end_time = NoTime

\* Synchronous part: required fields, then the availability SELECT is issued
ActiveCreateReceive(r, body) ==
    /\ CanReceive(r)
    /\ nreq' = nreq + 1
    /\ LET req == [Idle EXCEPT !.kind = "create"]
       IN  IF ActiveMissingRequired(body)
           THEN Respond(r, Reject(req, 400, "Missing required fields"))
           ELSE Await(r, [req EXCEPT !.pc = "existing", !.body = body])
    /\ UNCHANGED <<bookings, nextId, sheet, sheetRows, pendingAdds, now, client>>

\* SELECT * FROM bookings WHERE station_id=$1 AND booking_date=$2 AND
\* start_time=$3 AND status='Active'
ActiveExistingRows(station_id, booking_date, start_time) ==
    {b \in bookings :
        /\ b.station_id = station_id
        /\ b.booking_date = booking_date
        /\ b.start_time = start_time
        /\ b.status = "Active"}

\* `KB${Date.now()}`
ActiveBookingCode(ms) == <<ms>>

\* The availability SELECT runs; then 400, or the INSERT is issued
ActiveCreateExisting(r) ==
    /\ reqs[r].kind = "create" /\ reqs[r].pc = "existing"
    /\ LET req == reqs[r]
           existing == ActiveExistingRows(req.body.station_id, req.body.booking_date,
                                          req.body.start_time)
       IN  IF existing # {}
           THEN Respond(r, Reject(req, 400, "Station already booked for this time"))
           ELSE \E ms \in Millis :
                  Await(r, [req EXCEPT !.pc = "insert",
                                       !.booking_code = ActiveBookingCode(ms)])
    /\ UNCHANGED <<bookings, nextId, sheet, sheetRows, pendingAdds, nreq, now, client>>

\* A value stored in a DECIMAL(3,1) column, in hundredths
Decimal31(hundredths) == MathRound(hundredths, 10) * 10

\* The row this INSERT ... RETURNING * stores
ActiveInsertedRow(req, id, created_at) ==
    [id |-> id, user_name |-> req.body.user_name, station_id |-> req.body.station_id,
     booking_date |-> req.body.booking_date, start_time |-> req.body.start_time,
     end_time |-> req.body.end_time,
     duration_hours |-> Decimal31(req.body.duration_hours),
     total_price |-> req.body.total_price, status |-> "Active",
     booking_code |-> req.booking_code, created_at |-> created_at]

\* station_id INTEGER REFERENCES stations(id)
ActiveForeignKeyViolation(station_id) == station_id \notin DOMAIN activeStations

\* The INSERT runs: it throws on a duplicate booking_code or an unknown station
\* (500), or the row is stored and the station SELECT is issued
ActiveCreateInsert(r) ==
    /\ reqs[r].kind = "create" /\ reqs[r].pc = "insert"
    /\ nextId' = nextId + 1
    /\ LET req == reqs[r]
       IN  IF UniqueViolation(req.booking_code) \/ ActiveForeignKeyViolation(req.body.station_id)
           THEN /\ Respond(r, Reject(req, 500, "Failed to create booking"))
                /\ UNCHANGED bookings
           ELSE \E created_at \in Timestamps :
                  LET row == ActiveInsertedRow(req, nextId, created_at)
                  IN  /\ bookings' = bookings \cup {row}
                      /\ Await(r, [req EXCEPT !.pc = "station", !.updated = row])
    /\ UNCHANGED <<sheet, sheetRows, pendingAdds, nreq, now, client>>

\* The row pushBookingToSheet(booking) appends: result with station_name set
ActiveSheetRow(result, station_name) ==
    [Name |-> result.user_name, Contact |-> "", Station |-> station_name,
     Date |-> result.booking_date, StartTime |-> result.start_time,
     EndTime |-> result.end_time, Duration |-> result.duration_hours,
     Price |-> result.total_price, Status |-> result.status]

\* The station SELECT settles: the sheet push is started and 200 is sent, or
\* the query fails (the connection is lost) and the handler's catch sends 500;
\* the INSERT was its own statement and stays
ActiveCreateStation(r, ok) ==
    /\ reqs[r].kind = "create" /\ reqs[r].pc = "station"
    /\ LET req == reqs[r]
           result == req.updated
       IN  IF ok
           THEN /\ pendingAdds' =
                     pushBookingToSheet(ActiveSheetRow(result, activeStations[result.station_id]))
                /\ Respond(r, Answer(req, "Booking confirmed", result))
           ELSE /\ pendingAdds' = pendingAdds
                /\ Respond(r, Reject(req, 500, "Failed to create booking"))
    /\ UNCHANGED <<bookings, nextId, sheet, sheetRows, nreq, now, client>>

\* Synchronous part: the UPDATE is issued
ActiveCompleteReceive(r, id) ==
    /\ CanReceive(r)
    /\ nreq' = nreq + 1
    /\ Await(r, [Idle EXCEPT !.kind = "complete", !.pc = "update", !.id = id])
    /\ UNCHANGED <<bookings, nextId, sheet, sheetRows, pendingAdds, now, client>>

\* The UPDATE runs; when sheet && result, sheet.getRows is issued; otherwise
\* 200 is sent with booking: result, which is undefined when no row matched
ActiveCompleteUpdate(r) ==
    /\ reqs[r].kind = "complete" /\ reqs[r].pc = "update"
    /\ LET req == reqs[r]
           after == UpdateStatus("Completed", req.id)
           returning == {b \in after : b.id = req.id}
           result == IF returning = {} THEN NoRow ELSE CHOOSE b \in returning : TRUE
       IN  /\ bookings' = after
           /\ IF sheet # "null" /\ result # NoRow
              THEN Await(r, [req EXCEPT !.pc = "getRows", !.updated = result])
              ELSE Respond(r, Answer(req, "Booking completed", result))
    /\ UNCHANGED <<nextId, sheet, sheetRows, pendingAdds, nreq, now, client>>

\* Concurrent requests against the store of the earlier server.js, no sheet
NextActive ==
    \/ \E r \in Slots, body \in ActiveBodies : ActiveCreateReceive(r, body)
    \/ \E r \in Slots : ActiveCreateExisting(r)
    \/ \E r \in Slots : ActiveCreateInsert(r)
    \/ \E r \in Slots, ok \in BOOLEAN : ActiveCreateStation(r, ok)
    \/ \E r \in Slots, id \in BookingIds : ActiveCompleteReceive(r, id)
    \/ \E r \in Slots : ActiveCompleteUpdate(r)

SpecActive == InitNoSheet /\ [][NextActive]_vars

----------------------------------------------------------------------------
(* The datetime server (unnamed/part_000): one TIMESTAMP column datetime,   *)
(* status words 'Active' / 'Completed', sheet rows without a booking code.  *)
(* Same state variables; rows of bookings carry name, contact and datetime. *)

\* Table stations after this initDatabase
dtStations == [id \in 1 .. 6 |-> <<"Station", id>>]

\* A datetime string of a request body: an ISO string as Date.toISOString
\* writes it, or another spelling of the same instant (the value of a
\* datetime-local input); the TIMESTAMP column stores the instant
DtStrings == {<<"iso", 1>>, <<"iso", 2>>, <<"local", 1>>}
DtInstant(datetime) == datetime[2]
DtToISOString(instant) == <<"iso", instant>>

\* Request bodies: every field present (known stations 1 and 2, unknown
\* station 7), or name missing
DtBodies ==
    [name : {"Anu", "Binu"}, contact : {""}, station_id : {1, 2}, datetime : DtStrings]
    \cup {[name |-> "Anu", contact |-> "", station_id |-> 7, datetime |-> <<"iso", 1>>],
          [name |-> "", contact |-> "", station_id |-> 1, datetime |-> <<"iso", 1>>]}

\* !name || !station_id || !datetime
DtMissingFields(body) ==
    body.name = "" \/ body.station_id = 0 \/ body.datetime = <<>>

\* Synchronous part: required fields, then the availability SELECT is issued
DtCreateReceive(r, body) ==
    /\ CanReceive(r)
    /\ nreq' = nreq + 1
    /\ LET req == [Idle EXCEPT !.kind = "create"]
       IN  IF DtMissingFields(body)
           THEN Respond(r, Reject(req, 400, "Missing fields"))
           ELSE Await(r, [req EXCEPT !.pc = "existing", !.body = body])
    /\ UNCHANGED <<bookings, nextId, sheet, sheetRows, pendingAdds, now, client>>

\* SELECT * FROM bookings WHERE station_id=$1 AND datetime=$2 AND status='Active'
DtExistingRows(station_id, datetime) ==
    {b \in bookings :
        /\ b.station_id = station_id
        /\ b.datetime = DtInstant(datetime)
        /\ b.status = "Active"}

\* The availability SELECT runs; then 400, or the INSERT is issued
DtCreateExisting(r) ==
    /\ reqs[r].kind = "create" /\ reqs[r].pc = "existing"
    /\ LET req == reqs[r]
       IN  IF DtExistingRows(req.body.station_id, req.body.datetime) # {}
           THEN Respond(r, Reject(req, 400, "Station already booked for this time"))
           ELSE Await(r, [req EXCEPT !.pc = "insert"])
    /\ UNCHANGED <<bookings, nextId, sheet, sheetRows, pendingAdds, nreq, now, client>>

\* The row this INSERT ... RETURNING * stores
DtInsertedRow(req, id, created_at) ==
    [id |-> id, name |-> req.body.name, contact |-> req.body.contact,
     station_id |-> req.body.station_id, datetime |-> DtInstant(req.body.datetime),
     status |-> "Active", created_at |-> created_at]

\* The INSERT runs: it throws on an unknown station (500), or the row is
\* stored and the station SELECT is issued
DtCreateInsert(r) ==
    /\ reqs[r].kind = "create" /\ reqs[r].pc = "insert"
    /\ nextId' = nextId + 1
    /\ LET req == reqs[r]
       IN  IF req.body.station_id \notin DOMAIN dtStations
           THEN /\ Respond(r, Reject(req, 500, "Failed to create booking"))
                /\ UNCHANGED bookings
           ELSE \E created_at \in Timestamps :
                  LET row == DtInsertedRow(req, nextId, created_at)
                  IN  /\ bookings' = bookings \cup {row}
                      /\ Await(r, [req EXCEPT !.pc = "station", !.updated = row])
    /\ UNCHANGED <<sheet, sheetRows, pendingAdds, nreq, now, client>>

\* { Name, Contact, Station: stationRow?.name || station_id, DateTime, Status }
DtSheetRow(req) ==
    [Name |-> req.body.name, Contact |-> req.body.contact,
     Station |-> dtStations[req.body.station_id],
     DateTime |-> req.body.datetime, Status |-> "Active"]

\* The station SELECT runs; the sheet push is started and 200 is sent
DtCreateStation(r) ==
    /\ reqs[r].kind = "create" /\ reqs[r].pc = "station"
    /\ LET req == reqs[r]
       IN  /\ pendingAdds' = pushBookingToSheet(DtSheetRow(req))
           /\ Respond(r, Answer(req, "Booking confirmed", req.updated))
    /\ UNCHANGED <<bookings, nextId, sheet, sheetRows, nreq, now, client>>

\* Synchronous part: the UPDATE is issued
DtCompleteReceive(r, id) ==
    /\ CanReceive(r)
    /\ nreq' = nreq + 1
    /\ Await(r, [Idle EXCEPT !.kind = "complete", !.pc = "update", !.id = id])
    /\ UNCHANGED <<bookings, nextId, sheet, sheetRows, pendingAdds, now, client>>

\* The UPDATE runs; when sheet && result, sheet.getRows is issued; otherwise
\* 200 is sent with booking: result, which is undefined when no row matched
DtCompleteUpdate(r) ==
    /\ reqs[r].kind = "complete" /\ reqs[r].pc = "update"
    /\ LET req == reqs[r]
           after == UpdateStatus("Completed", req.id)
           returning == {b \in after : b.id = req.id}
           result == IF returning = {} THEN NoRow ELSE CHOOSE b \in returning : TRUE
       IN  /\ bookings' = after
           /\ IF sheet # "null" /\ result # NoRow
              THEN Await(r, [req EXCEPT !.pc = "getRows", !.updated = result])
              ELSE Respond(r, Answer(req, "Booking completed", result))
    /\ UNCHANGED <<nextId, sheet, sheetRows, pendingAdds, nreq, now, client>>

\* Mutant: the station cell is compared with the booking's station name
DtRowMatchesWithStation(row, result) ==
    /\ row.DateTime = DtToISOString(result.datetime)
    /\ row.Name = result.name
    /\ row.Station = dtStations[result.station_id]

\* (r.DateTime === result.datetime.toISOString() || r.DateTime === result.datetime)
\* && (r.Station === result.station_id || r.Station === result.station_name
\*     || r.Name === result.name)
\* Sheet cells are strings; RETURNING * has a Date datetime, an integer
\* station_id and no station_name
DtRowMatches(row, result) ==
    /\ \/ row.DateTime = DtToISOString(result.datetime)
       \/ StrictEq(JsString(row.DateTime), JsDate(result.datetime))
    /\ \/ StrictEq(JsString(row.Station), JsNumber(result.station_id))
       \/ StrictEq(JsString(row.Station), JsUndefined)
       \/ row.Name = result.name

\* rows.find(...) as an index: the first row that matches, 0 when none does
DtFindMatch(rows, result) ==
    LET hits == {i \in 1 .. Len(rows) : DtRowMatches(rows[i], result)}
    IN  IF hits = {} THEN 0 ELSE CHOOSE i \in hits : \A j \in hits : i <= j

\* sheet.getRows settles: it throws and the handler's catch sends 500, or
\* the match is looked up and, when there is one, match.save is issued
DtCompleteGetRows(r, ok) ==
    /\ reqs[r].kind = "complete" /\ reqs[r].pc = "getRows"
    /\ LET req == reqs[r]
           match == DtFindMatch(sheetRows, req.updated)
       IN  IF ~ok
           THEN Respond(r, Reject(req, 500, "Failed to update booking"))
           ELSE IF match # 0
           THEN Await(r, [req EXCEPT !.pc = "save", !.match = match])
           ELSE Respond(r, Answer(req, "Booking completed", req.updated))
    /\ UNCHANGED <<bookings, nextId, sheet, sheetRows, pendingAdds, nreq, now, client>>

\* match.save settles: the row is written with Status 'Completed', or it
\* throws and the handler's catch sends 500
DtCompleteSave(r, ok) ==
    /\ reqs[r].kind = "complete" /\ reqs[r].pc = "save"
    /\ LET req == reqs[r]
       IN  IF ok
           THEN /\ sheetRows' = [sheetRows EXCEPT ![req.match].Status = "Completed"]
                /\ Respond(r, Answer(req, "Booking completed", req.updated))
           ELSE /\ sheetRows' = sheetRows
                /\ Respond(r, Reject(req, 500, "Failed to update booking"))
    /\ UNCHANGED <<bookings, nextId, sheet, pendingAdds, nreq, now, client>>

\* Requests handled one at a time, the sheet configured
NextDt ==
    \/ \E body \in DtBodies : DtCreateReceive(1, body)
    \/ DtCreateExisting(1)
    \/ DtCreateInsert(1)
    \/ DtCreateStation(1)
    \/ \E row \in pendingAdds, ok \in BOOLEAN : SheetAddRow(row, ok)
    \/ \E id \in BookingIds : DtCompleteReceive(1, id)
    \/ DtCompleteUpdate(1)
    \/ \E ok \in BOOLEAN : DtCompleteGetRows(1, ok)
    \/ \E ok \in BOOLEAN : DtCompleteSave(1, ok)

SpecDt == InitSheet /\ [][NextDt]_vars

----------------------------------------------------------------------------
(* GET /api/stations and GET /api/bookings (overlap variant) *)

\* What the availability query selects: station_id of the rows WHERE
\* booking_date = $1 AND status IN ('confirmed', 'Active')
\* AND NOT (end_time <= $2 OR start_time >= $3)
\* Mutant: the status condition left out
BookedIdsAnyStatus(date, start_time, end_time) ==
    {b.station_id : b \in {c \in bookings :
        /\ c.booking_date = date
        /\ ~(TimeLE(c.end_time, start_time) \/ TimeLE(end_time, c.start_time))}}

BookedIds(date, start_time, end_time) ==
    {b.station_id : b \in {c \in bookings :
        /\ c.booking_date = date
        /\ c.status \in {"confirmed", "Active"}
        /\ ~(TimeLE(c.end_time, start_time) \/ TimeLE(end_time, c.start_time))}}

\* stations.map(s => ({ ...s, available })), in ORDER BY id order
StationsJSON(date, start_time, end_time) ==
    [id \in DOMAIN stations |->
        [id |-> id, station_name |-> stations[id].station_name,
         rate_per_hour |-> stations[id].rate_per_hour,
         available |-> IF date = 0 \/ start_time = NoTime \/ end_time = NoTime
                       THEN TRUE
                       ELSE id \notin BookedIds(date, start_time, end_time)]]

\* The handler of GET /api/stations with the query (date, start_time, end_time)
GetStations(date, start_time, end_time) ==
    /\ last' = Rows("stations", StationsJSON(date, start_time, end_time))
    /\ UNCHANGED <<bookings, nextId, sheet, sheetRows, pendingAdds, reqs, nreq, now, client>>

\* Mutant: ORDER BY b.booking_date DESC alone
OrderByDateOnly(a, b) == a.booking_date >= b.booking_date

\* ORDER BY b.booking_date DESC, b.start_time DESC allows row a before row b
OrderBy(a, b) ==
    \/ a.booking_date > b.booking_date
    \/ a.booking_date = b.booking_date /\ TimeLE(b.start_time, a.start_time)

\* A DATE column in the JSON body: node-postgres hands the column over as text
\* 'YYYY-MM-DD' or as a Date object, which JSON.stringify writes as an ISO
\* timestamp; which of the two is decided outside server.js
DateForms == {"date", "timestamp"}
DateJSON(day, form) == <<form, day>>

\* One row of SELECT b.*, s.station_name, s.rate_per_hour ... LEFT JOIN stations
JoinedRow(b, form) ==
    [id |-> b.id, station_id |-> b.station_id,
     booking_date |-> DateJSON(b.booking_date, form),
     start_time |-> b.start_time, end_time |-> b.end_time,
     duration_hours |-> b.duration_hours, total_price |-> b.total_price,
     status |-> b.status, booking_code |-> b.booking_code,
     created_at |-> b.created_at,
     station_name |-> stations[b.station_id].station_name,
     rate_per_hour |-> stations[b.station_id].rate_per_hour]

\* The results the bookings query can deliver: every row once, in an order
\* the ORDER BY clause allows (rows with equal keys come in any order)
QueryBookings ==
    {q \in [1 .. Cardinality(bookings) -> bookings] :
        /\ \A i, j \in DOMAIN q : i # j => q[i] # q[j]
        /\ \A i, j \in DOMAIN q : i < j => OrderBy(q[i], q[j])}

BookingsJSON ==
    {[i \in DOMAIN q |-> JoinedRow(q[i], form)] :
        q \in QueryBookings, form \in DateForms}

\* The handler of GET /api/bookings
GetBookings ==
    /\ \E rows \in BookingsJSON : last' = Rows("bookings", rows)
    /\ UNCHANGED <<bookings, nextId, sheet, sheetRows, pendingAdds, reqs, nreq, now, client>>

----------------------------------------------------------------------------
(* The client: BookingPreview *)

\* Times the wall clock shows
NowTimes == {<<9, 30>>, <<9, 40>>, <<10, 0>>, <<10, 10>>, <<10, 20>>, <<10, 30>>}

\* Date values as [date, time]; new Date(`${booking_date}T${time}`) is an
\* Invalid Date when booking_date is not 'YYYY-MM-DD'
InvalidDate == [date |-> 0, time |-> NoTime]

NewDate(booking_date, time) ==
    IF booking_date[1] = "date"
    THEN [date |-> booking_date[2], time |-> time]
    ELSE InvalidDate

\* a <= b on Date values; every comparison with an Invalid Date is false
DateLE(a, b) ==
    /\ a # InvalidDate /\ b # InvalidDate
    /\ \/ a.date < b.date
       \/ a.date = b.date /\ TimeLE(a.time, b.time)

\* now.toISOString().split("T")[0]; the clock times of the model lie after
\* 05:30, where the UTC date of a client in India is its local date
ToISODate(d) == DateJSON(d.date, "date")

\* Mutant: the status word of the older servers
MarkedCompletedCapitalised(b) == b.status = "Completed"

\* b.status === "completed"
MarkedCompleted(b) == b.status = "completed"

\* The predicate of bookings.find in computeStationStatus
IsActiveBooking(b, station, at) ==
    LET today == ToISODate(at)
        start == NewDate(b.booking_date, b.start_time)
        end == NewDate(b.booking_date, b.end_time)
    IN  /\ ~(b.station_id # station.id \/ b.booking_date # today)
        /\ ~MarkedCompleted(b)
        /\ DateLE(start, at) /\ DateLE(at, end)

\* Whole minutes from a to b (one date), Math.max(0, Math.floor(diffMs / 60000))
MinutesLeft(a, b) ==
    LET diff == timeToMinutes(b.time) - timeToMinutes(a.time)
    IN  IF diff < 0 THEN 0 ELSE diff

Available == [status |-> "AVAILABLE", currentBooking |-> 0, mins |-> 0]

\* computeStationStatus(station) over the bookings state `list`, new Date()
\* being `at`: Array.prototype.find takes the first element that matches
computeStationStatus(station, list, at) ==
    LET hits == {i \in DOMAIN list : IsActiveBooking(list[i], station, at)}
    IN  IF hits = {}
        THEN Available
        ELSE LET i == CHOOSE h \in hits : \A k \in hits : h <= k
                 activeBooking == list[i]
                 end == NewDate(activeBooking.booking_date, activeBooking.end_time)
             IN  [status |-> "OCCUPIED", currentBooking |-> activeBooking,
                  mins |-> MinutesLeft(at, end)]

\* A render: stations.map(s => computeStationStatus(s)) over the new state
Render(stationList, bookingList, at) ==
    [i \in DOMAIN stationList |->
        computeStationStatus(stationList[i], bookingList, at)]

\* loadStations settles: setStations(data), or the fetch fails and
\* setStations([]); the component renders again
loadStations(ok) ==
    /\ LET data == IF ok THEN StationsJSON(0, NoTime, NoTime) ELSE <<>>
       IN  client' = [client EXCEPT
                !.stations = data,
                !.computed = Render(data, client.bookings, now),
                !.renderedAt = now]
    /\ UNCHANGED <<bookings, nextId, sheet, sheetRows, pendingAdds, reqs, last, nreq, now>>

\* loadBookings settles: setBookings(data), or the fetch fails and
\* setBookings([]); the component renders again
loadBookings(ok) ==
    /\ \E data \in IF ok THEN BookingsJSON ELSE {<<>>} :
          client' = [client EXCEPT
                !.bookings = data,
                !.computed = Render(client.stations, data, now),
                !.renderedAt = now]
    /\ UNCHANGED <<bookings, nextId, sheet, sheetRows, pendingAdds, reqs, last, nreq, now>>

\* The 30 s timer or the end of refreshData: setLastUpdate(new Date())
setLastUpdate ==
    /\ client' = [client EXCEPT
            !.lastUpdate = now,
            !.computed = Render(client.stations, client.bookings, now),
            !.renderedAt = now]
    /\ UNCHANGED <<bookings, nextId, sheet, sheetRows, pendingAdds, reqs, last, nreq, now>>

\* Time passes
Tick(time) ==
    /\ time \in NowTimes
    /\ ~TimeLE(time, now.time)
    /\ now' = [now EXCEPT !.time = time]
    /\ UNCHANGED <<bookings, nextId, sheet, sheetRows, pendingAdds, reqs, last, nreq, client>>

----------------------------------------------------------------------------
(* A store that earlier requests have filled *)

StoredIds == {1, 2}

\* Bodies of accepted create requests: station 1 on either date, station 2 on
\* date 1, each with end after start
StoredBodies ==
    {b \in FullBodies :
        /\ b.station_id \in DOMAIN stations
        /\ b.station_id = 1 \/ b.booking_date = 1
        /\ ~InvalidTimeOrder(computeDurationHours(b.start_time, b.end_time))}

\* The rows booking `id` can be: as inserted, or completed since
StoredRows(id) ==
    {[InsertedRow([Idle EXCEPT
            !.body = body,
            !.dur = computeDurationHours(body.start_time, body.end_time),
            !.total_price = computeTotalPrice(
                computeDurationHours(body.start_time, body.end_time),
                stations[body.station_id].rate_per_hour),
            !.booking_code = BookingCode(id, 0)], id, 1)
        EXCEPT !.status = status] :
        body \in StoredBodies, status \in {"confirmed", "completed"}}

\* No request in flight, no sheet, bookings 1 .. n stored for some n (rows that
\* overlap included: two concurrent create requests store them)
InitStored ==
    /\ \E ids \in {S \in SUBSET StoredIds : \A i \in S, j \in StoredIds : j < i => j \in S} :
          /\ \E f \in [ids -> UNION {StoredRows(i) : i \in StoredIds}] :
                /\ \A i \in ids : f[i] \in StoredRows(i)
                /\ bookings = {f[i] : i \in ids}
          /\ nextId = Cardinality(ids) + 1
    /\ sheet = "null"
    /\ sheetRows = <<>>
    /\ pendingAdds = {}
    /\ reqs = [r \in Slots |-> Idle]
    /\ last = NoLast
    /\ nreq = 0
    /\ now = StartOfDay
    /\ client = NoClient

\* Read requests from any client
NextRead ==
    \/ \E date \in Dates \cup {0}, start_time \in Times \cup {NoTime},
          end_time \in Times \cup {NoTime} :
            GetStations(date, start_time, end_time)
    \/ GetBookings

SpecRead == InitStored /\ [][NextRead]_vars

\* One mounted client polling the server while time passes
NextClient ==
    \/ \E ok \in BOOLEAN : loadStations(ok)
    \/ \E ok \in BOOLEAN : loadBookings(ok)
    \/ setLastUpdate
    \/ \E time \in NowTimes : Tick(time)

SpecClient == InitStored /\ [][NextClient]_vars

----------------------------------------------------------------------------
(* Server start *)

\* Table bookings after initDatabase has run on a database that holds `rows`:
\* DROP TABLE IF EXISTS bookings CASCADE, then CREATE TABLE IF NOT EXISTS
initDatabase(rows) == {}

\* What the start-up leaves in `last`: no request has been answered
Started == [NoLast EXCEPT !.kind = "start"]

\* The process is stopped and started again: handlers and sheet calls in
\* flight are gone, initDatabase recreates the tables (a new SERIAL sequence),
\* initGoogleSheet sets `sheet` or leaves it null; the Google Sheet itself is
\* not touched
Restart ==
    /\ bookings' = initDatabase(bookings)
    /\ nextId' = 1
    /\ sheet' \in {"null", "sheet"}
    /\ pendingAdds' = {}
    /\ reqs' = [r \in Slots |-> Idle]
    /\ last' = Started
    /\ UNCHANGED <<sheetRows, nreq, now, client>>

\* Requests handled one at a time, with restarts
NextRestart ==
    \/ \E body \in StoredBodies : CreateReceive(1, body)
    \/ CreateConflicts(1)
    \/ CreateStation(1)
    \/ CreateInsert(1)
    \/ \E row \in pendingAdds, ok \in BOOLEAN : SheetAddRow(row, ok)
    \/ \E id \in BookingIds : CompleteReceive(1, id)
    \/ CompleteUpdate(1)
    \/ \E ok \in BOOLEAN : CompleteGetRows(1, ok)
    \/ \E ok \in BOOLEAN : CompleteSave(1, ok)
    \/ Restart

SpecRestart == Init /\ [][NextRestart]_vars

----------------------------------------------------------------------------
(* The sheet configured and reachable *)

\* Requests handled one at a time; every sheet call succeeds, and the append
\* started by a create settles at any later moment
NextMirror ==
    \/ \E body \in StoredBodies : CreateReceive(1, body)
    \/ CreateConflicts(1)
    \/ CreateStation(1)
    \/ CreateInsert(1)
    \/ \E row \in pendingAdds : SheetAddRow(row, TRUE)
    \/ \E id \in BookingIds : CompleteReceive(1, id)
    \/ CompleteUpdate(1)
    \/ CompleteGetRows(1, TRUE)
    \/ CompleteSave(1, TRUE)

SpecMirror == InitSheet /\ [][NextMirror]_vars

----------------------------------------------------------------------------
(* The client against the earlier server.js *)

\* GET /api/stations without date and start_time: SELECT * FROM stations ORDER BY id
ActiveStationsJSON ==
    [id \in DOMAIN activeStations |-> [id |-> id, station_name |-> activeStations[id]]]

\* One row of SELECT b.*, s.station_name ... LEFT JOIN stations
ActiveJoinedRow(b, form) ==
    [id |-> b.id, user_name |-> b.user_name, station_id |-> b.station_id,
     booking_date |-> DateJSON(b.booking_date, form),
     start_time |-> b.start_time, end_time |-> b.end_time,
     duration_hours |-> b.duration_hours, total_price |-> b.total_price,
     status |-> b.status, booking_code |-> b.booking_code,
     created_at |-> b.created_at,
     station_name |-> activeStations[b.station_id]]

\* The bodies GET /api/bookings can send: same ORDER BY as the overlap variant
ActiveBookingsJSON ==
    {[i \in DOMAIN q |-> ActiveJoinedRow(q[i], form)] :
        q \in QueryBookings, form \in DateForms}

\* loadStations settles against this server
ActiveLoadStations(ok) ==
    /\ LET data == IF ok THEN ActiveStationsJSON ELSE <<>>
       IN  client' = [client EXCEPT
                !.stations = data,
                !.computed = Render(data, client.bookings, now),
                !.renderedAt = now]
    /\ UNCHANGED <<bookings, nextId, sheet, sheetRows, pendingAdds, reqs, last, nreq, now>>

\* loadBookings settles against this server
ActiveLoadBookings(ok) ==
    /\ \E data \in IF ok THEN ActiveBookingsJSON ELSE {<<>>} :
          client' = [client EXCEPT
                !.bookings = data,
                !.computed = Render(client.stations, data, now),
                !.renderedAt = now]
    /\ UNCHANGED <<bookings, nextId, sheet, sheetRows, pendingAdds, reqs, last, nreq, now>>

\* The Complete button of a row of the bookings table is rendered
OffersComplete(b) == b.status = "confirmed"

\* Requests handled one at a time, no sheet, one mounted client, time passing
NextActiveClient ==
    \/ \E body \in {b \in ActiveFullBodies : b.station_id = 1 /\ b.duration_hours = 33} :
            ActiveCreateReceive(1, body)
    \/ ActiveCreateExisting(1)
    \/ ActiveCreateInsert(1)
    \/ ActiveCreateStation(1, TRUE)
    \/ \E id \in BookingIds : ActiveCompleteReceive(1, id)
    \/ ActiveCompleteUpdate(1)
    \/ ActiveLoadStations(TRUE)
    \/ \E ok \in BOOLEAN : ActiveLoadBookings(ok)
    \/ \E time \in NowTimes : Tick(time)

SpecActiveClient == InitNoSheet /\ [][NextActiveClient]_vars

----------------------------------------------------------------------------
(* The client of client/src/components/BookingPreview.jsx *)

\* Its loadStations settles, at mount or from setInterval(loadStations, 30000):
\* setStations(data) and setLastUpdate(new Date()), or the fetch fails and
\* setStations([]); the bookings state is not touched
PreviewLoadStations(ok) ==
    /\ LET data == IF ok THEN StationsJSON(0, NoTime, NoTime) ELSE <<>>
       IN  client' = [client EXCEPT
                !.stations = data,
                !.lastUpdate = IF ok THEN now ELSE @,
                !.computed = Render(data, client.bookings, now),
                !.renderedAt = now]
    /\ UNCHANGED <<bookings, nextId, sheet, sheetRows, pendingAdds, reqs, last, nreq, now>>

\* The awaits of the handlers in flight settle
PreviewServerStep ==
    \/ CreateConflicts(1)
    \/ CreateStation(1)
    \/ CreateInsert(1)
    \/ CompleteUpdate(1)

\* The component has mounted over the empty store (its one loadBookings call
\* has settled with []); other clients create and complete bookings, the
\* interval timer fires
NextPreview ==
    \/ \E body \in StoredBodies : CreateReceive(1, body)
    \/ \E id \in BookingIds : CompleteReceive(1, id)
    \/ PreviewServerStep
    \/ \E ok \in BOOLEAN : PreviewLoadStations(ok)
    \/ \E time \in NowTimes : Tick(time)

\* The timer keeps firing and its fetch succeeds; the server answers
SpecPreview ==
    /\ InitNoSheet
    /\ [][NextPreview]_vars
    /\ WF_vars(PreviewLoadStations(TRUE))
    /\ WF_vars(PreviewServerStep)

----------------------------------------------------------------------------
(* Availability queries between create requests *)

\* Requests handled one at a time over a filled store, no sheet
NextAgree ==
    \/ \E body \in StoredBodies :
            GetStations(body.booking_date, body.start_time, body.end_time)
    \/ \E body \in StoredBodies : CreateReceive(1, body)
    \/ CreateConflicts(1)
    \/ CreateStation(1)
    \/ CreateInsert(1)

SpecAgree == InitStored /\ [][NextAgree]_vars

----------------------------------------------------------------------------
(* Properties *)

\* Minutes since midnight of a time of day
MinuteOfDay(t) == 60 * t[1] + t[2]

Abs(n) == IF n < 0 THEN -n ELSE n

SameStationAndDate(b1, b2) ==
    b1.station_id = b2.station_id /\ b1.booking_date = b2.booking_date

\* Half-open intervals [start, end) of two bookings are disjoint
Disjoint(b1, b2) ==
    \/ MinuteOfDay(b1.end_time) <= MinuteOfDay(b2.start_time)
    \/ MinuteOfDay(b2.end_time) <= MinuteOfDay(b1.start_time)

Confirmed == {b \in bookings : b.status = "confirmed"}

\* Slot r's handler takes the step (a continuation after an await)
Continues(r) == reqs[r].pc # "idle" /\ reqs'[r] # reqs[r]

\* Slot r's handler sends `status` in this step
Sends(r, kind, status) ==
    /\ Continues(r)
    /\ reqs'[r].pc = "idle"
    /\ last'.kind = kind
    /\ last'.status = status

\* C1: with requests handled one at a time, no two confirmed bookings of one
\* station and date have overlapping half-open intervals
C1_NoConfirmedOverlap ==
    \A b1 \in Confirmed, b2 \in Confirmed :
        (b1.id # b2.id /\ SameStationAndDate(b1, b2)) => Disjoint(b1, b2)

\* Two confirmed bookings of one station and date that touch
C1_Witness ==
    \E b1 \in Confirmed, b2 \in Confirmed :
        /\ b1.id # b2.id
        /\ SameStationAndDate(b1, b2)
        /\ b1.end_time = b2.start_time

\* C2: with two create requests in flight at once, at most one of two
\* overlapping candidates is stored: no two confirmed overlapping rows persist
C2_NoOverlapUnderConcurrency ==
    ~ \E b1 \in Confirmed, b2 \in Confirmed :
        /\ b1.id # b2.id
        /\ SameStationAndDate(b1, b2)
        /\ ~Disjoint(b1, b2)

\* C3: a create request with all fields, end after start and an existing
\* station is answered 400 by the conflict check iff a confirmed booking of the
\* station and date overlaps it when the check runs; otherwise it goes on to
\* the INSERT, which stores it (or fails on a duplicate booking_code)
C3_RejectedIffOverlap ==
    [][\A r \in Slots :
        LET req == reqs[r]
            clash == \E b \in Confirmed :
                        /\ b.station_id = req.body.station_id
                        /\ b.booking_date = req.body.booking_date
                        /\ ~(\/ MinuteOfDay(b.end_time) <= MinuteOfDay(req.body.start_time)
                             \/ MinuteOfDay(b.start_time) >= MinuteOfDay(req.body.end_time))
        IN  (/\ req.kind = "create"
             /\ Continues(r)
             /\ req.body.station_id \in DOMAIN stations)
            => CASE req.pc = "conflicts" ->
                      /\ clash <=> Sends(r, "create", 400)
                      /\ ~clash => reqs'[r].pc = "station"
                 [] req.pc = "station" -> reqs'[r].pc = "insert"
                 [] OTHER ->
                      \/ /\ Sends(r, "create", 200)
                         /\ last'.booking \in bookings' \ bookings
                         /\ last'.booking.status = "confirmed"
                         /\ last'.booking.start_time = req.body.start_time
                         /\ last'.booking.end_time = req.body.end_time
                      \/ /\ Sends(r, "create", 500)
                         /\ \E b \in bookings : b.booking_code = req.booking_code
      ]_vars

\* A request was accepted whose interval touches a confirmed booking
C3_Witness ==
    /\ last.kind = "create" /\ last.status = 200
    /\ \E b \in Confirmed :
        /\ b.id # last.booking.id
        /\ SameStationAndDate(b, last.booking)
        /\ (b.end_time = last.booking.start_time \/ b.start_time = last.booking.end_time)

\* C4: a create request with end_time <= start_time never gets past validation:
\* every create handler awaiting a query, and every stored row, has its end
\* after its start, and the time-order rejection is a 400 that carries no row
C4_InvertedIntervalRejected ==
    /\ \A r \in Slots :
        reqs[r].kind = "create" =>
            MinuteOfDay(reqs[r].body.end_time) > MinuteOfDay(reqs[r].body.start_time)
    /\ \A b \in bookings : MinuteOfDay(b.end_time) > MinuteOfDay(b.start_time)
    /\ last.error = "end_time must be after start_time" =>
            last.status = 400 /\ last.booking = NoRow

\* A time-order rejection was sent while the store holds a booking
C4_Witness ==
    /\ last.kind = "create"
    /\ last.error = "end_time must be after start_time"
    /\ bookings # {}

\* C5: a complete request whose UPDATE finds the booking already completed is
\* answered with an error, not as another successful completion
C5_SecondCompleteIsError ==
    [][\A r \in Slots :
        (/\ reqs[r].kind = "complete" /\ reqs[r].pc = "update"
         /\ Continues(r)
         /\ \E b \in bookings : b.id = reqs[r].id /\ b.status = "completed")
        => /\ reqs'[r].pc = "idle"
           /\ last'.kind = "complete"
           /\ last'.status \notin {200, 404}
      ]_vars

\* C6: a complete request whose UPDATE matches no stored booking is answered
\* 404, and neither table bookings nor the sheet (its rows, its pending
\* appends) changes
C6_MissingIdIsNotFound ==
    [][\A r \in Slots :
        (/\ reqs[r].kind = "complete" /\ reqs[r].pc = "update"
         /\ Continues(r)
         /\ \A b \in bookings : b.id # reqs[r].id)
        => /\ Sends(r, "complete", 404)
           /\ bookings' = bookings
           /\ sheetRows' = sheetRows
           /\ pendingAdds' = pendingAdds
      ]_vars

\* C7: every status is confirmed or completed; a row appears as confirmed, a
\* status only ever changes from confirmed to completed, and no row disappears
C7_StatusLifecycle ==
    /\ [](\A b \in bookings : b.status \in {"confirmed", "completed"})
    /\ [][/\ \A n \in bookings' :
                (\A b \in bookings : b.id # n.id) => n.status = "confirmed"
          /\ \A b \in bookings :
                \E n \in bookings' :
                    /\ n.id = b.id
                    /\ \/ n.status = b.status
                       \/ b.status = "confirmed" /\ n.status = "completed"
         ]_vars

\* A completed booking next to a confirmed one, after a successful complete
C7_Witness ==
    /\ last.kind = "complete" /\ last.status = 200
    /\ \E b \in bookings : b.status = "completed"
    /\ Confirmed # {}

\* C8: the UPDATE of complete(id) leaves every field of booking id but status,
\* and every other booking, as it was
C8_CompleteChangesOnlyStatus ==
    [][\A r \in Slots :
        (reqs[r].kind = "complete" /\ reqs[r].pc = "update" /\ Continues(r))
        => /\ Cardinality(bookings') = Cardinality(bookings)
           /\ \A b \in bookings :
                IF b.id = reqs[r].id
                THEN \E n \in bookings' :
                        /\ n.id = b.id
                        /\ n.station_id = b.station_id
                        /\ n.booking_date = b.booking_date
                        /\ n.start_time = b.start_time
                        /\ n.end_time = b.end_time
                        /\ n.duration_hours = b.duration_hours
                        /\ n.total_price = b.total_price
                        /\ n.booking_code = b.booking_code
                        /\ n.created_at = b.created_at
                ELSE b \in bookings'
      ]_vars

\* A booking was completed while another one is stored as confirmed
C8_Witness ==
    /\ last.kind = "complete" /\ last.status = 200
    /\ last.booking.status = "completed"
    /\ \E b \in Confirmed : b.id # last.booking.id

\* C9: each stored duration_hours is (end - start) in hours to the nearest
\* hundredth, and each total_price is duration_hours x the station's
\* rate_per_hour to the nearest cent
C9_PriceIsDurationTimesRate ==
    \A b \in bookings :
        LET minutes == MinuteOfDay(b.end_time) - MinuteOfDay(b.start_time)
            rate == stations[b.station_id].rate_per_hour
        IN  /\ 2 * Abs(60 * b.duration_hours - 100 * minutes) <= 60
            /\ 2 * Abs(100 * b.total_price - b.duration_hours * rate) <= 100

\* A 40-minute booking of Bekal Station: 0.67 h, 134.00
C9_Witness ==
    \E b \in bookings :
        /\ b.station_id = 1
        /\ MinuteOfDay(b.end_time) - MinuteOfDay(b.start_time) = 40
        /\ b.duration_hours = 67
        /\ b.total_price = 13400

\* C10: no step of a create handler other than the one that answers 200
\* changes table bookings: a request rejected on receipt, by the conflict
\* check, by the station lookup or by the INSERT leaves the table as it was
C10_RejectionWritesNothing ==
    [][/\ (nreq' # nreq) => bookings' = bookings
       /\ \A r \in Slots :
            (/\ reqs[r].kind = "create"
             /\ Continues(r)
             /\ ~Sends(r, "create", 200))
            => bookings' = bookings
      ]_vars

\* An unknown station was rejected while the store holds a booking
C10_Witness ==
    /\ last.kind = "create" /\ last.status = 400
    /\ last.error = "Invalid station"
    /\ bookings # {}

\* C11: with the sheet configured, the INSERT step of a create request stores
\* the row and answers 200 while the sheet append is still pending; an append
\* that then fails changes neither table bookings nor any response
C11_CreateSurvivesSheetFailure ==
    [][/\ \A r \in Slots :
            (/\ sheet # "null"
             /\ reqs[r].kind = "create" /\ reqs[r].pc = "insert"
             /\ Continues(r)
             /\ \A b \in bookings : b.booking_code # reqs[r].booking_code)
            => /\ Sends(r, "create", 200)
               /\ last'.booking \in bookings' \ bookings
               /\ SheetRow(reqs[r]) \in pendingAdds'
               /\ sheetRows' = sheetRows
       /\ (\E row \in pendingAdds :
                pendingAdds' = pendingAdds \ {row} /\ sheetRows' = sheetRows)
            => /\ bookings' = bookings
               /\ last' = last
               /\ reqs' = reqs
      ]_vars

\* A create was answered 200, its append has failed, and the row is stored
C11_Witness ==
    /\ sheet # "null"
    /\ last.kind = "create" /\ last.status = 200
    /\ last.booking \in bookings
    /\ pendingAdds = {}
    /\ sheetRows = <<>>

\* C12: with the sheet configured, once the UPDATE of a complete request has
\* matched a row, the steps that follow it (getRows, the row lookup, save)
\* end in 200 with the updated booking whatever the sheet does, and leave
\* table bookings, where the booking is completed, as it is
C12_CompleteSurvivesSheetFailure ==
    [][\A r \in Slots :
        (/\ reqs[r].kind = "complete"
         /\ reqs[r].pc \in {"getRows", "save"}
         /\ Continues(r))
        => /\ bookings' = bookings
           /\ reqs[r].updated \in bookings
           /\ reqs[r].updated.status = "completed"
           /\ \/ /\ Sends(r, "complete", 200)
                 /\ last'.booking = reqs[r].updated
              \/ /\ reqs[r].pc = "getRows"
                 /\ reqs'[r] = [reqs[r] EXCEPT !.pc = "save", !.match = reqs'[r].match]
                 /\ last' = last
      ]_vars

\* A complete was answered 200 while the sheet still shows its row confirmed
\* (getRows or save has failed) or holds no row for it
C12_Witness ==
    /\ sheet # "null"
    /\ last.kind = "complete" /\ last.status = 200
    /\ last.booking \in bookings
    /\ last.booking.status = "completed"
    /\ sheetRows # <<>>
    /\ \A i \in 1 .. Len(sheetRows) :
            sheetRows[i].BookingCode = last.booking.booking_code
                => sheetRows[i].Status = "confirmed"

\* The bookings the client holds
ClientList == {client.bookings[i] : i \in DOMAIN client.bookings}

\* The bookings the client holds for its i-th station on the day of the last
\* render, whatever the form their booking_date arrived in
ListedToday(i) ==
    {b \in ClientList :
        /\ b.station_id = client.stations[i].id
        /\ b.booking_date[2] = client.renderedAt.date}

\* start_time <= t < end_time
ContainsHalfOpen(b, t) ==
    /\ MinuteOfDay(b.start_time) <= MinuteOfDay(t)
    /\ MinuteOfDay(t) < MinuteOfDay(b.end_time)

\* C13: the render never shows a station OCCUPIED by a completed booking, and
\* a station all of whose listed bookings are completed is AVAILABLE
C13_CompletedNeverOccupies ==
    \A i \in DOMAIN client.computed :
        /\ client.computed[i].status = "OCCUPIED" =>
              /\ client.computed[i].currentBooking \in ClientList
              /\ client.computed[i].currentBooking.status # "completed"
        /\ (\A b \in ListedToday(i) : b.status = "completed") =>
              client.computed[i].status = "AVAILABLE"

\* A station is shown AVAILABLE at a time inside the interval of a completed
\* booking the client holds for it, today
C13_Witness ==
    \E i \in DOMAIN client.computed :
        /\ client.computed[i].status = "AVAILABLE"
        /\ \E b \in ListedToday(i) :
              /\ b.status = "completed"
              /\ b.booking_date = ToISODate(client.renderedAt)
              /\ ContainsHalfOpen(b, client.renderedAt.time)
              /\ b.start_time # client.renderedAt.time

\* C14: the render shows a station OCCUPIED iff the client holds a confirmed
\* booking for it, today, with start_time <= now < end_time
C14_OccupiedIffConfirmedContainsNow ==
    \A i \in DOMAIN client.computed :
        client.computed[i].status = "OCCUPIED"
            <=> \E b \in ListedToday(i) :
                    /\ b.status = "confirmed"
                    /\ ContainsHalfOpen(b, client.renderedAt.time)

\* C15: when the client holds several bookings that are not completed for a
\* station, today, whose intervals contain now, the render shows as occupying
\* booking one with the earliest start_time
C15_EarliestStartOccupies ==
    \A i \in DOMAIN client.computed :
        LET several == {b \in ListedToday(i) :
                            /\ b.status # "completed"
                            /\ ContainsHalfOpen(b, client.renderedAt.time)}
        IN  Cardinality(several) > 1 =>
                /\ client.computed[i].status = "OCCUPIED"
                /\ \A b \in several :
                      MinuteOfDay(client.computed[i].currentBooking.start_time)
                          <= MinuteOfDay(b.start_time)

\* C16: a restart keeps every stored booking, with the same fields and status
C16_BookingsSurviveRestart ==
    [][(last'.kind = "start" /\ last.kind # "start")
        => \A b \in bookings : b \in bookings']_vars

\* C17: GET /api/stations with date, start_time and end_time answers every
\* station once, with available = false exactly for the stations that have a
\* stored confirmed booking on that date overlapping the window (not
\* end <= window start, not start >= window end); a completed booking never
\* makes a station unavailable, and the store is left as it is
C17_AvailabilityIffConfirmedOverlap ==
    [][\A date \in Dates, start_time \in Times, end_time \in Times :
        (last' = Rows("stations", StationsJSON(date, start_time, end_time))
         /\ last' # last)
        => /\ DOMAIN last'.rows = DOMAIN stations
           /\ \A i \in DOMAIN last'.rows :
                /\ last'.rows[i].id = i
                /\ last'.rows[i].available =
                      ~ \E b \in Confirmed :
                            /\ b.station_id = i
                            /\ b.booking_date = date
                            /\ ~(\/ MinuteOfDay(b.end_time) <= MinuteOfDay(start_time)
                                 \/ MinuteOfDay(b.start_time) >= MinuteOfDay(end_time))
           /\ bookings' = bookings
      ]_vars

\* An availability answer with one station unavailable while another station
\* has a completed booking inside the same window and is available
C17_Witness ==
    /\ last.kind = "stations"
    /\ \E i, j \in DOMAIN last.rows :
        /\ ~last.rows[i].available
        /\ last.rows[j].available
        /\ \E b \in bookings, c \in bookings :
              /\ b.station_id = i /\ b.status = "confirmed"
              /\ c.station_id = j /\ c.status = "completed"
              /\ b.booking_date = c.booking_date
              /\ b.start_time = c.start_time /\ b.end_time = c.end_time

\* C18: GET /api/bookings answers every stored booking exactly once, ordered
\* by booking_date descending and within one date by start_time descending,
\* and leaves the store as it is
C18_BookingsListedOnceInOrder ==
    [][(last'.kind = "bookings" /\ last' # last)
        => /\ last'.status = 200
           /\ Len(last'.rows) = Cardinality(bookings)
           /\ \A b \in bookings : \E i \in DOMAIN last'.rows :
                /\ last'.rows[i].id = b.id
                /\ last'.rows[i].status = b.status
                /\ last'.rows[i].start_time = b.start_time
                /\ last'.rows[i].end_time = b.end_time
                /\ last'.rows[i].booking_code = b.booking_code
                /\ last'.rows[i].booking_date[2] = b.booking_date
           /\ \A i, j \in DOMAIN last'.rows :
                i < j =>
                    LET a == last'.rows[i]
                        b == last'.rows[j]
                    IN  \/ a.booking_date[2] > b.booking_date[2]
                        \/ /\ a.booking_date[2] = b.booking_date[2]
                           /\ MinuteOfDay(a.start_time) >= MinuteOfDay(b.start_time)
           /\ bookings' = bookings
           /\ nextId' = nextId
      ]_vars

\* A list of two bookings of one date with different start times
C18_Witness ==
    /\ last.kind = "bookings"
    /\ Len(last.rows) = Cardinality(bookings)
    /\ \E i, j \in DOMAIN last.rows :
        /\ i < j
        /\ last.rows[i].booking_date = last.rows[j].booking_date
        /\ last.rows[i].start_time # last.rows[j].start_time

\* C19: no two stored bookings share a booking_code, and the row a create
\* request is answered with carries a code no other stored row has
C19_BookingCodesUnique ==
    /\ \A b1 \in bookings, b2 \in bookings :
          b1.id # b2.id => b1.booking_code # b2.booking_code
    /\ (last.kind = "create" /\ last.status = 200) =>
          /\ last.booking.booking_code # NoCode
          /\ \A b \in bookings :
                b.id # last.booking.id => b.booking_code # last.booking.booking_code

\* Two create requests drew the same millisecond and the same random bytes:
\* the first is stored, the second was refused by the INSERT
C19_Witness ==
    /\ last.kind = "create" /\ last.status = 500
    /\ bookings # {}
    /\ nextId > Cardinality(bookings) + 1

\* No handler between two awaits and no sheet call outstanding
Quiescent ==
    /\ \A r \in Slots : reqs[r].pc = "idle"
    /\ pendingAdds = {}

\* The sheet rows recorded for booking b
SheetRowsOf(b) ==
    {i \in DOMAIN sheetRows : sheetRows[i].BookingCode = b.booking_code}

\* C21: with every sheet call succeeding, once all handlers and sheet calls
\* have finished each completed booking has exactly one sheet row, and that
\* row's Status is completed
C21_CompletedBookingHasCompletedRow ==
    Quiescent =>
        \A b \in bookings :
            b.status = "completed" =>
                /\ Cardinality(SheetRowsOf(b)) = 1
                /\ \A i \in SheetRowsOf(b) : sheetRows[i].Status = "completed"

\* C22: the save of complete(id) changes the Status of no sheet row but one
\* recorded for booking id (in the datetime server: the row with the booking's
\* name, station and datetime), and a lookup without a match changes nothing
\* and ends in 200
C22_OnlyOwnRowMarkedCompleted ==
    [][\A r \in Slots :
        (reqs[r].kind = "complete" /\ Continues(r))
        => /\ \A i \in DOMAIN sheetRows :
                sheetRows'[i] # sheetRows[i] =>
                    /\ sheetRows[i].Name = reqs[r].updated.name
                    /\ sheetRows[i].Station = dtStations[reqs[r].updated.station_id]
                    /\ DtInstant(sheetRows[i].DateTime) = reqs[r].updated.datetime
           /\ (reqs[r].pc = "getRows" /\ reqs'[r].pc = "idle")
                => sheetRows' = sheetRows
      ]_vars

\* C23: a create request of the earlier server.js that ends in an error
\* response leaves no row of its own in table bookings
C23_FailedCreateLeavesNoRow ==
    [][\A r \in Slots :
        (/\ reqs[r].kind = "create"
         /\ Continues(r)
         /\ reqs'[r].pc = "idle"
         /\ last'.status >= 400)
        => /\ bookings' \subseteq bookings
           /\ reqs[r].updated \notin bookings'
      ]_vars

\* The stored bookings of the request's station and date whose interval
\* overlaps the request's
OverlappingRows(body) ==
    {b \in bookings :
        /\ b.station_id = body.station_id
        /\ b.booking_date = body.booking_date
        /\ MinuteOfDay(b.end_time) > MinuteOfDay(body.start_time)
        /\ MinuteOfDay(b.start_time) < MinuteOfDay(body.end_time)}

\* C24: a create request that overlaps completed bookings only passes the
\* conflict check, and its INSERT stores it as confirmed (unless the INSERT
\* fails on a duplicate booking_code)
C24_CompletedSlotIsFree ==
    [][\A r \in Slots :
        LET req == reqs[r]
        IN  (/\ req.kind = "create"
             /\ Continues(r)
             /\ OverlappingRows(req.body) # {}
             /\ \A b \in OverlappingRows(req.body) : b.status = "completed")
            => CASE req.pc = "conflicts" -> reqs'[r].pc = "station" /\ last' = last
                 [] req.pc = "station" -> reqs'[r].pc = "insert" /\ last' = last
                 [] OTHER ->
                      \/ /\ Sends(r, "create", 200)
                         /\ last'.booking \in bookings' \ bookings
                         /\ last'.booking.status = "confirmed"
                      \/ /\ Sends(r, "create", 500)
                         /\ \E b \in bookings : b.booking_code = req.booking_code
      ]_vars

\* A booking was created over the interval of a completed booking of the same
\* station and date
C24_Witness ==
    /\ last.kind = "create" /\ last.status = 200
    /\ last.booking \in Confirmed
    /\ \E b \in bookings :
        /\ b.status = "completed"
        /\ SameStationAndDate(b, last.booking)
        /\ ~Disjoint(b, last.booking)

\* C25: in the earlier server.js, the availability check rejects a create
\* request whose interval overlaps an Active booking of the same station and
\* date, whatever that booking's start_time is
C25_ActiveOverlapRejected ==
    [][\A r \in Slots :
        (/\ reqs[r].kind = "create" /\ reqs[r].pc = "existing"
         /\ Continues(r)
         /\ \E b \in OverlappingRows(reqs[r].body) : b.status = "Active")
        => Sends(r, "create", 400)
      ]_vars

\* C26: the duration_hours stored with a booking is (end_time - start_time) in
\* hours to the nearest hundredth, whatever the request body carried
C26_StoredDurationIsDerived ==
    \A b \in bookings :
        2 * Abs(60 * b.duration_hours
                - 100 * (MinuteOfDay(b.end_time) - MinuteOfDay(b.start_time))) <= 60

\* The request answered last was GET /api/stations for the window and date of
\* the create request that slot r is handling
AskedBefore(r) ==
    /\ last.kind = "stations"
    /\ reqs[r].kind = "create"
    /\ reqs[r].body.station_id \in DOMAIN last.rows
    /\ last.rows = StationsJSON(reqs[r].body.booking_date, reqs[r].body.start_time,
                                reqs[r].body.end_time)

\* C27: a create request handled right after GET /api/stations for its date
\* and window passes the conflict check, finds its station and reaches the
\* INSERT (which stores it, or fails on a duplicate booking_code) when the
\* answer showed its station available, and is answered 400 by the conflict
\* check when the answer showed it unavailable
C27_AvailabilityAgreesWithCreate ==
    [][\A r \in Slots :
        (AskedBefore(r) /\ Continues(r))
        => LET req == reqs[r]
               available == last.rows[req.body.station_id].available
           IN  CASE req.pc = "conflicts" ->
                      IF available
                      THEN reqs'[r].pc = "station" /\ last' = last
                      ELSE /\ Sends(r, "create", 400)
                           /\ last'.error = "Station already booked for this time range"
                 [] req.pc = "station" -> available /\ reqs'[r].pc = "insert"
                 [] OTHER ->
                      /\ available
                      /\ \/ /\ Sends(r, "create", 200)
                            /\ last'.booking \in bookings' \ bookings
                         \/ /\ Sends(r, "create", 500)
                            /\ \E b \in bookings : b.booking_code = req.booking_code
      ]_vars

\* After an answer that showed its station available, a create request has
\* passed the conflict check next to a confirmed booking that touches it
C27_Witness ==
    \E r \in Slots :
        /\ AskedBefore(r)
        /\ reqs[r].pc = "station"
        /\ last.rows[reqs[r].body.station_id].available
        /\ \E b \in Confirmed :
              /\ b.station_id = reqs[r].body.station_id
              /\ b.booking_date = reqs[r].body.booking_date
              /\ b.end_time = reqs[r].body.start_time

\* C28: a complete request answered 500 'Failed to update booking' leaves no
\* booking of its id with status Completed in the store
C28_ErrorMeansNotCompleted ==
    [][\A r \in Slots :
        (Sends(r, "complete", 500) /\ last'.error = "Failed to update booking")
        => ~ \E b \in bookings' : b.id = reqs[r].id /\ b.status = "Completed"
      ]_vars

\* The words the complete handlers write into bookings.status
CompletedWords == {"completed", "Completed"}

\* C29: once the client holds a booking with the status its complete handler
\* wrote, no render shows that booking occupying its station, and its row
\* offers no Complete button
C29_CompletedShownFree ==
    /\ \A i \in DOMAIN client.computed :
          client.computed[i].status = "OCCUPIED"
          => client.computed[i].currentBooking.status \notin CompletedWords
    /\ \A b \in ClientList : b.status \in CompletedWords => ~OffersComplete(b)

\* The client's lists are what the two GET handlers answer from the store now
ClientFresh ==
    /\ client.stations = StationsJSON(0, NoTime, NoTime)
    /\ client.bookings \in BookingsJSON

\* C30: while the timer keeps firing and fetches succeed, a mounted client
\* whose lists do not reflect the store eventually holds lists that do
C30_ClientEventuallyFresh == (~ClientFresh) ~> ClientFresh

====
